---- MODULE Spec2Model ----
(***************************************************************************)
(* Model of src/main.py: the feedback service.                             *)
(*                                                                         *)
(* Shared state is the module-level triple feedback_db,                    *)
(* feedback_id_counter, feedback_lock.  Every request is served by a       *)
(* worker thread (the endpoints are plain `def`, so the framework runs     *)
(* them in its thread pool); a thread's position in the handler is pc[t]   *)
(* and the handler's locals are the per-thread variables below.  Steps are *)
(* split wherever another thread can observe or change shared state.       *)
(***************************************************************************)
EXTENDS Integers, Sequences, FiniteSets, Bags, TLC

\* ---------------------------------------------------------------- bounds
NumThreads == 2
MaxRecords == 2
MaxStore == 5
MaxPage == 10

\* ------------------------------------------------------ program constants
MIN_LENGTH == 10
MAX_LENGTH == 1000
PAGE_DEFAULT == 1
PAGE_MIN == 1
PAGE_SIZE_DEFAULT == 10
PAGE_SIZE_MIN == 1
PAGE_SIZE_MAX == 50
FIRST_ID == 1
HTTP_200_OK == 200
HTTP_201_CREATED == 201
HTTP_401_UNAUTHORIZED == 401
HTTP_422_UNPROCESSABLE == 422
ADMIN_TOKEN == "secret-admin-token"

Threads == 1..NumThreads

\* ------------------------------------------------------------ strings
\* An email or a message is a sequence of characters, so that lower-casing
\* and the length limits are computed and not assumed.  None (an absent
\* Optional[EmailStr]) is the empty sequence: `if email:` is false for both.
None == <<>>

Lower(c) ==
    CASE c = "A" -> "a"
      [] c = "B" -> "b"
      [] OTHER -> c

RECURSIVE LowerStr(_)
LowerStr(s) ==
    IF s = <<>> THEN <<>> ELSE <<Lower(Head(s))>> \o LowerStr(Tail(s))

Rep(c, n) == [i \in 1..n |-> c]

AtPositions(e) == {i \in 1..Len(e) : e[i] = "@"}

\* EmailStr accepts local@domain with exactly one "@", both parts non-empty.
ValidEmail(e) ==
    /\ Cardinality(AtPositions(e)) = 1
    /\ \A i \in AtPositions(e) : i > 1 /\ i < Len(e)

\* EmailStr returns the address with its domain part lower-cased and its
\* local part kept as written.
RECURSIVE NormalizeFrom(_, _)
NormalizeFrom(e, inDomain) ==
    IF e = <<>> THEN <<>>
    ELSE <<IF inDomain THEN Lower(Head(e)) ELSE Head(e)>>
         \o NormalizeFrom(Tail(e), inDomain \/ Head(e) = "@")

EmailStr(e) == NormalizeFrom(e, FALSE)

ValidMessage(m) == Len(m) >= MIN_LENGTH /\ Len(m) <= MAX_LENGTH

\* --------------------------------------------------------------- inputs
E_AB == <<"A", "@", "B">>
E_ab == <<"a", "@", "b">>
E_aab == <<"a", "a", "@", "b">>
E_bad == <<"a", "b">>

MsgX == Rep("x", MIN_LENGTH)
MsgY == Rep("y", MIN_LENGTH + 1)
MsgShort == Rep("x", MIN_LENGTH - 1)
MsgLong == Rep("z", MAX_LENGTH + 1)

\* Request bodies of POST /feedback/submit; a missing key is a missing field.
SubmitInputs ==
    { [email |-> E_AB, message |-> MsgX],
      [email |-> E_aab, message |-> MsgY],
      [email |-> E_bad, message |-> MsgX],
      [email |-> E_ab, message |-> MsgShort],
      [email |-> E_ab, message |-> MsgLong] }

\* Query strings of GET /admin/feedbacks; a missing key is a missing parameter.
ListInputs ==
    { [token |-> ADMIN_TOKEN],
      [page |-> 2, page_size |-> 1, email |-> E_ab, token |-> ADMIN_TOKEN],
      [page |-> 1, page_size |-> 50, token |-> "guess"],
      [page |-> 1, page_size |-> 50],
      [page |-> 0, token |-> ADMIN_TOKEN] }

\* The wider set of query strings the sequential specification draws from.
QueryEmails == {E_AB, E_ab, E_bad}
QueryPageSizes == {0, 1, 2, PAGE_SIZE_MAX, PAGE_SIZE_MAX + 1}
QueryPages == {0, 1, 2, MaxPage}

ListInputsWide ==
    LET base == { [page |-> p, page_size |-> s] :
                      p \in QueryPages, s \in QueryPageSizes }
        withEmail == base \cup
            { [page |-> b.page, page_size |-> b.page_size, email |-> e] :
                  b \in base, e \in QueryEmails }
        withToken ==
            { [page |-> b.page, page_size |-> b.page_size, token |-> k] :
                  b \in base, k \in {ADMIN_TOKEN, "guess"} }
            \cup
            { [page |-> b.page, page_size |-> b.page_size, email |-> b.email,
               token |-> ADMIN_TOKEN] : b \in withEmail \ base }
    IN  withToken \cup base \cup { [token |-> ADMIN_TOKEN] }

\* ---------------------------------------------------------------- state
VARIABLES
    feedback_db,          \* the module-level list of records
    feedback_id_counter,  \* the module-level next id
    feedback_lock,        \* TRUE while the threading.Lock is held
    pc,                   \* per thread: where it is in its handler
    feedback,             \* submit_feedback: the validated FeedbackIn
    feedback_record,      \* submit_feedback: the dict built under the lock
    background_tasks,     \* submit_feedback: the request's BackgroundTasks
    page, page_size, email, \* get_feedbacks: validated parameters
    filtered,             \* get_feedbacks: the list being built / built
    it,                   \* get_feedbacks: the list iterator's index
    response,             \* the response written by the latest step, if any
    task_error,           \* TRUE when the latest step was a task that raised
    issued,               \* history: ids in the order they were read
    returned,             \* history: FeedbackOut bodies sent to submitters
    email_log,            \* history: calls of send_confirmation_email
    seen                  \* history: records a list request has read

shared == <<feedback_db, feedback_id_counter, feedback_lock>>
submitLocals == <<feedback, feedback_record, background_tasks>>
listLocals == <<page, page_size, email, filtered, it, seen>>
history == <<issued, returned, email_log>>
output == <<response, task_error>>
vars == <<shared, pc, submitLocals, listLocals, output, history>>

NoFeedback == [email |-> None, message |-> None]
NoRecord == [id |-> 0, email |-> None, message |-> None]
NoResponse == [status |-> 0]

SubmitPcs == {"acquire", "build", "append", "incr", "release", "add_task", "return"}
CriticalPcs == {"build", "append", "incr", "release"}

\* ------------------------------------------------------------- helpers
Min(a, b) == IF a < b THEN a ELSE b

\* Mutant: the end index is taken as inclusive.
PySlice_Inclusive(s, start, end) ==
    IF start >= Min(end + 1, Len(s)) THEN <<>>
    ELSE SubSeq(s, start + 1, Min(end + 1, Len(s)))

\* s[start:end] for 0 <= start, 0 <= end: Python clamps both to len(s).
PySlice(s, start, end) ==
    IF start >= Min(end, Len(s)) THEN <<>>
    ELSE SubSeq(s, start + 1, Min(end, Len(s)))

\* Mutant: the comparison is case-sensitive.
Matches_CaseSensitive(f, e) == f.email = e

\* f["email"].lower() == email.lower()
Matches(f, e) == LowerStr(f.email) = LowerStr(e)

\* FeedbackOut(**fb): the three fields, the email validated again.
FeedbackOut(fb) == [id |-> fb.id, email |-> EmailStr(fb.email), message |-> fb.message]

RECURSIVE FeedbackOuts(_)
FeedbackOuts(s) ==
    IF s = <<>> THEN <<>> ELSE <<FeedbackOut(Head(s))>> \o FeedbackOuts(Tail(s))

http_exception_handler(code, detail) == [status |-> code, detail |-> detail]

\* The framework's answer to a request that fails validation; loc names the
\* part of the request ("body" or "query") that failed.
ValidationError(loc) == [status |-> HTTP_422_UNPROCESSABLE, loc |-> loc]

HasToken(q) == "token" \in DOMAIN q
\* Mutant: any token is accepted.
Authorized_Any(token) == TRUE

\* token != ADMIN_TOKEN raises; equality lets the request through.
Authorized(token) == token = ADMIN_TOKEN
get_admin_token(q) == Authorized(q.token)

QueryPage(q) == IF "page" \in DOMAIN q THEN q.page ELSE PAGE_DEFAULT
QueryPageSize(q) == IF "page_size" \in DOMAIN q THEN q.page_size ELSE PAGE_SIZE_DEFAULT
QueryEmail(q) == IF "email" \in DOMAIN q THEN q.email ELSE None

ValidQuery(q) ==
    /\ QueryPage(q) >= PAGE_MIN
    /\ QueryPageSize(q) >= PAGE_SIZE_MIN /\ QueryPageSize(q) <= PAGE_SIZE_MAX
    /\ "email" \in DOMAIN q => ValidEmail(q.email)

ValidFeedbackIn(b) ==
    /\ "email" \in DOMAIN b /\ "message" \in DOMAIN b
    /\ ValidEmail(b.email)
    /\ ValidMessage(b.message)



\* A step that sends nothing to the client and raises nothing.
Silent == response' = NoResponse /\ task_error' = FALSE

\* ----------------------------------------------------------------- Init
Idle ==
    /\ pc = [t \in Threads |-> "idle"]
    /\ feedback = [t \in Threads |-> NoFeedback]
    /\ feedback_record = [t \in Threads |-> NoRecord]
    /\ background_tasks = [t \in Threads |-> <<>>]
    /\ page = [t \in Threads |-> 0]
    /\ page_size = [t \in Threads |-> 0]
    /\ email = [t \in Threads |-> None]
    /\ filtered = [t \in Threads |-> <<>>]
    /\ it = [t \in Threads |-> 0]
    /\ seen = [t \in Threads |-> <<>>]
    /\ response = NoResponse
    /\ task_error = FALSE

Init ==
    /\ feedback_db = <<>>
    /\ feedback_id_counter = FIRST_ID
    /\ feedback_lock = FALSE
    /\ issued = <<>>
    /\ returned = {}
    /\ email_log = EmptyBag
    /\ Idle

\* ------------------------------------------------- POST /feedback/submit
\* The body fails FeedbackIn validation: the handler is never entered.
RejectSubmit(t, body) ==
    /\ pc[t] = "idle"
    /\ ~ValidFeedbackIn(body)
    /\ response' = ValidationError("body")
    /\ task_error' = FALSE
    /\ UNCHANGED <<shared, pc, submitLocals, listLocals, history>>

\* The body validates; the handler is entered and reaches `with feedback_lock`.
StartSubmit(t, body) ==
    /\ pc[t] = "idle"
    /\ ValidFeedbackIn(body)
    /\ Len(feedback_db) + Cardinality({u \in Threads : pc[u] \in {"acquire", "build"}})
           < MaxRecords
    /\ feedback' = [feedback EXCEPT ![t] =
                        [email |-> EmailStr(body.email), message |-> body.message]]
    /\ pc' = [pc EXCEPT ![t] = "acquire"]
    /\ Silent
    /\ UNCHANGED <<shared, feedback_record, background_tasks,
                   listLocals, history>>

\* Mutant: the lock is not taken into account.
CanAcquire_NoLock == TRUE

\* threading.Lock.acquire succeeds only on a free lock.
CanAcquire == feedback_lock = FALSE

\* with feedback_lock: (enter)
Acquire(t) ==
    /\ pc[t] = "acquire"
    /\ CanAcquire
    /\ feedback_lock' = TRUE
    /\ pc' = [pc EXCEPT ![t] = "build"]
    /\ Silent
    /\ UNCHANGED <<feedback_db, feedback_id_counter, submitLocals, listLocals, history>>

\* feedback_record = {"id": feedback_id_counter, "email": ..., "message": ...}
BuildRecord(t) ==
    /\ pc[t] = "build"
    /\ feedback_record' = [feedback_record EXCEPT ![t] =
                               [id |-> feedback_id_counter,
                                email |-> feedback[t].email,
                                message |-> feedback[t].message]]
    /\ issued' = Append(issued, feedback_id_counter)
    /\ pc' = [pc EXCEPT ![t] = "append"]
    /\ Silent
    /\ UNCHANGED <<shared, feedback, background_tasks, listLocals, returned, email_log>>

\* Mutant: the record is inserted at the front.
ListAppend_Front(db, rec) == <<rec>> \o db

ListAppend(db, rec) == Append(db, rec)

\* feedback_db.append(feedback_record)
AppendRecord(t) ==
    /\ pc[t] = "append"
    /\ feedback_db' = ListAppend(feedback_db, feedback_record[t])
    /\ pc' = [pc EXCEPT ![t] = "incr"]
    /\ Silent
    /\ UNCHANGED <<feedback_id_counter, feedback_lock, submitLocals, listLocals, history>>

\* Mutant: the counter skips an id.
NextId_Skip(n) == n + 2

NextId(n) == n + 1

\* feedback_id_counter += 1
Increment(t) ==
    /\ pc[t] = "incr"
    /\ feedback_id_counter' = NextId(feedback_id_counter)
    /\ pc' = [pc EXCEPT ![t] = "release"]
    /\ Silent
    /\ UNCHANGED <<feedback_db, feedback_lock, submitLocals, listLocals, history>>

\* Mutant: the handler goes on without releasing the lock.
Release_Forget(t) ==
    /\ pc[t] = "release"
    /\ pc' = [pc EXCEPT ![t] = "add_task"]
    /\ Silent
    /\ UNCHANGED <<shared, submitLocals, listLocals, history>>

\* with feedback_lock: (exit)
Release(t) ==
    /\ pc[t] = "release"
    /\ feedback_lock' = FALSE
    /\ pc' = [pc EXCEPT ![t] = "add_task"]
    /\ Silent
    /\ UNCHANGED <<feedback_db, feedback_id_counter, submitLocals, listLocals, history>>

SubmitResponse(rec) ==
    [status |-> HTTP_201_CREATED,
     success |-> TRUE,
     message |-> "Feedback received. Confirmation email sent.",
     feedback |-> FeedbackOut(rec)]

\* Mutant: the two arguments are passed in the wrong order.
TaskArgs_Swapped(t) == <<feedback[t].message, feedback[t].email>>

TaskArgs(t) == <<feedback[t].email, feedback[t].message>>

\* Mutant: send_confirmation_email is called in the handler instead of being
\* scheduled; if it raises, the request fails.
AddTask_Inline(t) ==
    /\ pc[t] = "add_task"
    /\ email_log' = email_log (+) SetToBag({[id |-> feedback_record[t].id,
                                              email |-> feedback[t].email,
                                              message |-> feedback[t].message]})
    /\ \E ok \in BOOLEAN :
         /\ task_error' = ~ok
         /\ response' = IF ok THEN SubmitResponse(feedback_record[t])
                               ELSE [status |-> 500]
         /\ returned' = IF ok THEN returned \cup {FeedbackOut(feedback_record[t])}
                               ELSE returned
    /\ feedback' = [feedback EXCEPT ![t] = NoFeedback]
    /\ feedback_record' = [feedback_record EXCEPT ![t] = NoRecord]
    /\ pc' = [pc EXCEPT ![t] = "idle"]
    /\ UNCHANGED <<shared, background_tasks, listLocals, issued>>

\* background_tasks.add_task(send_confirmation_email, feedback.email, feedback.message)
AddTask(t) ==
    /\ pc[t] = "add_task"
    /\ background_tasks' = [background_tasks EXCEPT ![t] = Append(@, TaskArgs(t))]
    /\ pc' = [pc EXCEPT ![t] = "return"]
    /\ Silent
    /\ UNCHANGED <<shared, feedback, feedback_record, listLocals, history>>

\* return FeedbackSubmitResponse(...): the response is sent, the request's
\* background tasks are still to run.
SubmitReturn(t) ==
    /\ pc[t] = "return"
    /\ response' = SubmitResponse(feedback_record[t])
    /\ task_error' = FALSE
    /\ returned' = returned \cup {FeedbackOut(feedback_record[t])}
    /\ pc' = [pc EXCEPT ![t] = "background"]
    /\ UNCHANGED <<shared, submitLocals, listLocals, issued, email_log>>

\* send_confirmation_email(email, message), run after the response was sent.
\* print may raise (ok = FALSE); the task list is consumed either way.
RunBackground(t) ==
    /\ pc[t] = "background"
    /\ email_log' = email_log (+) SetToBag({[id |-> feedback_record[t].id,
                                              email |-> Head(background_tasks[t])[1],
                                              message |-> Head(background_tasks[t])[2]]})
    /\ \E ok \in BOOLEAN : task_error' = ~ok
    /\ background_tasks' = [background_tasks EXCEPT ![t] = Tail(@)]
    /\ feedback' = [feedback EXCEPT ![t] = NoFeedback]
    /\ feedback_record' = [feedback_record EXCEPT ![t] = NoRecord]
    /\ pc' = [pc EXCEPT ![t] = "idle"]
    /\ response' = NoResponse
    /\ UNCHANGED <<shared, listLocals, issued, returned>>

\* ------------------------------------------------- GET /admin/feedbacks
\* The token parameter is present and get_admin_token raises 401.
RejectToken(t, q) ==
    /\ pc[t] = "idle"
    /\ HasToken(q) /\ ~get_admin_token(q)
    /\ response' = http_exception_handler(HTTP_401_UNAUTHORIZED, "Invalid admin token.")
    /\ task_error' = FALSE
    /\ UNCHANGED <<shared, pc, submitLocals, listLocals, history>>

\* The token is missing, or it is right and another parameter is invalid.
RejectQuery(t, q) ==
    /\ pc[t] = "idle"
    /\ \/ ~HasToken(q)
       \/ HasToken(q) /\ get_admin_token(q) /\ ~ValidQuery(q)
    /\ response' = ValidationError("query")
    /\ task_error' = FALSE
    /\ UNCHANGED <<shared, pc, submitLocals, listLocals, history>>

\* The handler is entered; `if email:` picks the branch.
StartList(t, q) ==
    /\ pc[t] = "idle"
    /\ HasToken(q) /\ get_admin_token(q) /\ ValidQuery(q)
    /\ page' = [page EXCEPT ![t] = QueryPage(q)]
    /\ page_size' = [page_size EXCEPT ![t] = QueryPageSize(q)]
    /\ email' = [email EXCEPT ![t] =
                     IF QueryEmail(q) = None THEN None ELSE EmailStr(QueryEmail(q))]
    /\ pc' = [pc EXCEPT ![t] = IF QueryEmail(q) # None THEN "comprehension" ELSE "copy"]
    /\ Silent
    /\ UNCHANGED <<shared, submitLocals, filtered, it, seen, history>>

NextIndex(i) == i + 1

\* [f for f in feedback_db if ...]: the iterator yields one more record.
ComprehensionStep(t) ==
    /\ pc[t] = "comprehension"
    /\ it[t] < Len(feedback_db)
    /\ LET f == feedback_db[it[t] + 1] IN
         /\ seen' = [seen EXCEPT ![t] = Append(@, f)]
         /\ filtered' = [filtered EXCEPT ![t] =
                             IF Matches(f, email[t]) THEN Append(@, f) ELSE @]
    /\ it' = [it EXCEPT ![t] = NextIndex(@)]
    /\ Silent
    /\ UNCHANGED <<shared, pc, submitLocals, page, page_size, email, history>>

\* [f for f in feedback_db if ...]: the iterator is exhausted.
ComprehensionEnd(t) ==
    /\ pc[t] = "comprehension"
    /\ it[t] >= Len(feedback_db)
    /\ pc' = [pc EXCEPT ![t] = "paginate"]
    /\ Silent
    /\ UNCHANGED <<shared, submitLocals, listLocals, history>>

\* filtered = feedback_db[:]
CopyAll(t) ==
    /\ pc[t] = "copy"
    /\ filtered' = [filtered EXCEPT ![t] = feedback_db]
    /\ seen' = [seen EXCEPT ![t] = feedback_db]
    /\ pc' = [pc EXCEPT ![t] = "paginate"]
    /\ Silent
    /\ UNCHANGED <<shared, submitLocals, page, page_size, email, it, history>>

\* total, start, end, paginated and the FeedbackListOut built from them
ListResponse(rows, p, size) ==
    LET total == Len(rows)
        start == (p - 1) * size
        end == start + size
        paginated == PySlice(rows, start, end)
    IN  [status |-> HTTP_200_OK,
         total |-> total,
         page |-> p,
         page_size |-> size,
         feedbacks |-> FeedbackOuts(paginated)]

\* Mutant: the page is cut from the live store instead of the filtered copy.
ListReturn_Live(t) ==
    /\ pc[t] = "paginate"
    /\ response' = ListResponse(IF email[t] = None THEN feedback_db ELSE filtered[t],
                                page[t], page_size[t])
    /\ task_error' = FALSE
    /\ pc' = [pc EXCEPT ![t] = "idle"]
    /\ page' = [page EXCEPT ![t] = 0]
    /\ page_size' = [page_size EXCEPT ![t] = 0]
    /\ email' = [email EXCEPT ![t] = None]
    /\ filtered' = [filtered EXCEPT ![t] = <<>>]
    /\ it' = [it EXCEPT ![t] = 0]
    /\ seen' = [seen EXCEPT ![t] = <<>>]
    /\ UNCHANGED <<shared, submitLocals, history>>

ListReturn(t) ==
    /\ pc[t] = "paginate"
    /\ response' = ListResponse(filtered[t], page[t], page_size[t])
    /\ task_error' = FALSE
    /\ pc' = [pc EXCEPT ![t] = "idle"]
    /\ page' = [page EXCEPT ![t] = 0]
    /\ page_size' = [page_size EXCEPT ![t] = 0]
    /\ email' = [email EXCEPT ![t] = None]
    /\ filtered' = [filtered EXCEPT ![t] = <<>>]
    /\ it' = [it EXCEPT ![t] = 0]
    /\ seen' = [seen EXCEPT ![t] = <<>>]
    /\ UNCHANGED <<shared, submitLocals, history>>

\* ------------------------------------------------------- specifications
SubmitStep(t) ==
    \/ Acquire(t)
    \/ BuildRecord(t)
    \/ AppendRecord(t)
    \/ Increment(t)
    \/ Release(t)
    \/ AddTask(t)
    \/ SubmitReturn(t)
    \/ RunBackground(t)

ListStep(t) ==
    \/ ComprehensionStep(t)
    \/ ComprehensionEnd(t)
    \/ CopyAll(t)
    \/ ListReturn(t)

Next ==
    \E t \in Threads :
        \/ \E body \in SubmitInputs : RejectSubmit(t, body)
        \/ \E body \in SubmitInputs : StartSubmit(t, body)
        \/ SubmitStep(t)
        \/ \E q \in ListInputs : RejectToken(t, q)
        \/ \E q \in ListInputs : RejectQuery(t, q)
        \/ \E q \in ListInputs : StartList(t, q)
        \/ ListStep(t)

Spec == Init /\ [][Next]_vars

\* The same program under fair scheduling: a thread that can take a step of
\* its handler eventually takes it, and a thread waiting for the lock gets
\* it if the lock keeps becoming free.  Only requests that enter a handler
\* are taken: a rejected request never starts one.
SubmitInputsFair == { [email |-> E_AB, message |-> MsgX] }

NextFair ==
    \E t \in Threads :
        \/ \E body \in SubmitInputsFair : StartSubmit(t, body)
        \/ SubmitStep(t)
        \/ \E q \in ListInputs : StartList(t, q)
        \/ ListStep(t)

Fairness ==
    \A t \in Threads :
        /\ SF_vars(Acquire(t))
        /\ WF_vars(BuildRecord(t) \/ AppendRecord(t) \/ Increment(t) \/ Release(t)
                    \/ AddTask(t) \/ SubmitReturn(t) \/ RunBackground(t)
                    \/ ListStep(t))

FairSpec == Init /\ [][NextFair]_vars /\ Fairness

\* The list endpoint alone, one request at a time, over every store the
\* program can have built from the valid submit inputs (ids 1..n in order,
\* the counter one past the last id, every notification already run).
StoreInputs ==
    {b \in SubmitInputs \cup {[email |-> E_ab, message |-> MsgX]} : ValidFeedbackIn(b)}

StoreOf(v) ==
    [i \in DOMAIN v |-> [id |-> i - 1 + FIRST_ID,
                         email |-> EmailStr(v[i].email),
                         message |-> v[i].message]]

Stores ==
    UNION { {StoreOf(v) : v \in [1..n -> StoreInputs]} : n \in 0..MaxStore }

InitList ==
    /\ feedback_db \in Stores
    /\ feedback_id_counter = Len(feedback_db) + FIRST_ID
    /\ feedback_lock = FALSE
    /\ issued = [i \in 1..Len(feedback_db) |-> feedback_db[i].id]
    /\ returned = {FeedbackOut(feedback_db[i]) : i \in 1..Len(feedback_db)}
    /\ email_log = SetToBag({[id |-> feedback_db[i].id,
                              email |-> feedback_db[i].email,
                              message |-> feedback_db[i].message] :
                                 i \in 1..Len(feedback_db)})
    /\ Idle

\* One worker serves the requests, one at a time.
ListWorkers == {t \in Threads : \A u \in Threads : t <= u}

NextList ==
    \E t \in ListWorkers :
        \/ \E q \in ListInputsWide : RejectToken(t, q)
        \/ \E q \in ListInputsWide : RejectQuery(t, q)
        \/ \E q \in ListInputsWide : StartList(t, q)
        \/ ListStep(t)

SpecList == InitList /\ [][NextList]_vars

\* ------------------------------------------------------------ properties
IsPrefix(a, b) == Len(a) <= Len(b) /\ SubSeq(b, 1, Len(a)) = a

AscendingIds(rows) ==
    \A i, j \in 1..Len(rows) : i < j => rows[i].id < rows[j].id

RECURSIVE Filter(_, _)
Filter(db, e) ==
    IF db = <<>> THEN <<>>
    ELSE (IF Matches(Head(db), e) THEN <<Head(db)>> ELSE <<>>) \o Filter(Tail(db), e)

\* The records a list request with filter e keeps out of rows.
Retained(rows, e) == IF e = None THEN rows ELSE Filter(rows, e)

Unauthorized(q) == ~("token" \in DOMAIN q /\ q.token = ADMIN_TOKEN)

ListRequest(t, q) == RejectToken(t, q) \/ RejectQuery(t, q) \/ StartList(t, q)

\* C1: ids are handed out in strictly increasing order, so every id read by a
\* submission is greater than every id read before it, no two submissions in
\* flight hold the same id, and no two responses carry the same id.
C1_IdsUniqueAndIncreasing ==
    /\ \A i, j \in 1..Len(issued) : i < j => issued[i] < issued[j]
    /\ \A t, u \in Threads :
         (t # u /\ feedback_record[t].id # 0 /\ feedback_record[u].id # 0)
             => feedback_record[t].id # feedback_record[u].id
    /\ \A a, b \in returned : a.id = b.id => a = b
    /\ response.status = HTTP_201_CREATED =>
         \E k \in 1..Len(issued) :
            /\ issued[k] = response.feedback.id
            /\ \A i \in 1..(k - 1) : issued[i] < response.feedback.id

C1_Witness ==
    /\ Len(issued) >= 2
    /\ \E t, u \in Threads :
         /\ t # u
         /\ pc[t] \in {"add_task", "return"}
         /\ pc[u] \in {"append", "incr", "release"}

\* The two parts of C2: the shape of the store, and the steps of the counter.
C2_StoreShape ==
    feedback_lock = FALSE =>
        /\ \A i \in 1..Len(feedback_db) : feedback_db[i].id = i
        /\ {feedback_db[i].id : i \in 1..Len(feedback_db)} = 1..Len(feedback_db)
        /\ feedback_id_counter = Len(feedback_db) + 1

C2_CounterStep ==
    feedback_id_counter' # feedback_id_counter =>
        /\ feedback_id_counter' = feedback_id_counter + 1
        /\ \E t \in Threads :
             /\ pc[t] = "incr" /\ pc'[t] = "release"
             /\ \E i \in 1..Len(feedback_db) : feedback_db[i] = feedback_record[t]
        /\ response' = NoResponse

\* C2: whenever the lock is free the store holds the ids 1..len in order and
\* the counter is len + 1; the counter starts at 1 and moves only by +1, in
\* the increment step of a submit whose record is already appended.
C2_GaplessIdsAndCounter ==
    /\ feedback_id_counter = 1
    /\ []C2_StoreShape
    /\ [][C2_CounterStep]_vars

C2_Witness ==
    /\ feedback_lock = FALSE
    /\ Len(feedback_db) >= 2
    /\ response = ValidationError("body")

\* What C3 requires of the step in which thread t returns its page.
C3_PageOf(t) ==
    LET rows == filtered[t]
        total == Len(rows)
        start == (page[t] - 1) * page_size[t]
        end == start + page_size[t]
        n == IF start >= total THEN 0
             ELSE IF end > total THEN total - start
             ELSE page_size[t]
    IN  /\ response'.status = HTTP_200_OK
        /\ response'.total = total
        /\ response'.page = page[t]
        /\ response'.page_size = page_size[t]
        /\ Len(response'.feedbacks) = n
        /\ \A k \in 1..n : response'.feedbacks[k] = FeedbackOut(rows[start + k])
        /\ AscendingIds(rows)

\* C3: the response of a list request echoes page and page_size, reports the
\* number of all filtered records as total, and carries the records at the
\* 0-based positions start .. end-1 of the filtered list that exist, in order.
C3_PaginationClamped ==
    [][\A t \in Threads : (pc[t] = "paginate" /\ pc'[t] = "idle") => C3_PageOf(t)]_vars

C3_Witness ==
    /\ response.status = HTTP_200_OK
    /\ response.total = 5
    /\ response.page = 10
    /\ response.page_size = 2
    /\ response.feedbacks = <<>>

\* C4: once the filtering is done, the filtered list holds, in store order
\* and once each, exactly the stored records whose email equals the filter
\* after lower-casing both; without a filter it is the whole store.
C4_FilterExact ==
    \A t \in Threads :
        pc[t] = "paginate" =>
            IF email[t] = None
            THEN filtered[t] = feedback_db
            ELSE /\ \A i \in 1..Len(feedback_db) :
                      (LowerStr(feedback_db[i].email) = LowerStr(email[t]))
                          <=> (\E k \in 1..Len(filtered[t]) :
                                   filtered[t][k] = feedback_db[i])
                 /\ \A k \in 1..Len(filtered[t]) :
                      \E i \in 1..Len(feedback_db) : filtered[t][k] = feedback_db[i]
                 /\ AscendingIds(filtered[t])

C4_Witness ==
    \E t \in Threads :
        /\ pc[t] = "paginate"
        /\ email[t] = E_ab
        /\ \E k \in 1..Len(filtered[t]) : filtered[t][k].email = <<"A", "@", "b">>
        /\ \E i \in 1..Len(feedback_db) : feedback_db[i].email = <<"a", "a", "@", "b">>

\* The parts of C5: the requests it is about, the refusal they get, and the
\* two ways a request can go.
UnauthorizedInputs == {q \in ListInputsWide : Unauthorized(q)}

C5_Refusal(q) ==
    IF "token" \in DOMAIN q
    THEN [status |-> 401, detail |-> "Invalid admin token."]
    ELSE [status |-> 422, loc |-> "query"]

C5_Refused(t, q) ==
    /\ ListRequest(t, q)
    /\ response' = C5_Refusal(q)
    /\ UNCHANGED <<shared, pc, submitLocals, listLocals, history>>

C5_NotRefused(t, q) ==
    /\ ListRequest(t, q)
    /\ ~(/\ response' = C5_Refusal(q)
         /\ UNCHANGED <<shared, pc, submitLocals, listLocals, history>>)

C6_CopyStep(t) ==
    (pc[t] = "copy" /\ pc'[t] = "paginate" /\ \A u \in Threads : pc[u] \notin SubmitPcs)
        => /\ {FeedbackOut(seen'[t][k]) : k \in 1..Len(seen'[t])} = returned
           /\ Len(seen'[t]) = Cardinality(returned)
           /\ AscendingIds(seen'[t])
           /\ filtered'[t] = seen'[t]

C6_ReturnStep(t) ==
    (/\ pc[t] = "paginate" /\ pc'[t] = "idle"
     /\ email[t] = None /\ page[t] = 1 /\ page_size[t] >= Len(seen[t]))
        => /\ response'.total = Len(seen[t])
           /\ response'.feedbacks = FeedbackOuts(seen[t])

\* C6: a copy of the store taken while no submission is in flight holds
\* exactly the records returned to the submitters, in ascending id order;
\* and an unfiltered request for page 1 with page_size at least the number
\* of records it read returns all of them, with total their number.
C6_ListReturnsAllSubmitted ==
    [][\A t \in Threads : C6_CopyStep(t) /\ C6_ReturnStep(t)]_vars

C6_Witness ==
    /\ response.status = HTTP_200_OK
    /\ response.total = 2
    /\ Len(response.feedbacks) = 2
    /\ response.feedbacks[1].id = 1 /\ response.feedbacks[2].id = 2
    /\ Cardinality(returned) = 2
    /\ \A u \in Threads : pc[u] \notin SubmitPcs

\* The parts of C7: what holds of the records read, and the two steps.
C7_CompleteRecord(r) ==
    r.id >= FIRST_ID /\ ValidEmail(r.email) /\ ValidMessage(r.message)

C7_Snapshot ==
    \A t \in Threads :
        pc[t] \in {"comprehension", "paginate"} =>
            /\ IsPrefix(seen[t], feedback_db)
            /\ \A i, j \in 1..Len(seen[t]) : i # j => seen[t][i].id # seen[t][j].id
            /\ \A i \in 1..Len(seen[t]) : C7_CompleteRecord(seen[t][i])
            /\ pc[t] = "paginate" => filtered[t] = Retained(seen[t], email[t])

C7_Step(t) ==
    /\ (pc[t] \in {"copy", "comprehension"} /\ pc'[t] = "paginate")
           => seen'[t] = feedback_db
    /\ (pc[t] = "paginate" /\ pc'[t] = "idle")
           => response' = ListResponse(Retained(seen[t], email[t]), page[t], page_size[t])

\* C7: the records a list request reads are the whole store at the instant
\* its reading ends; later submissions leave them a prefix of the store, each
\* record complete and no id twice; total and the page come from those records.
C7_PointInTimeSnapshot ==
    /\ []C7_Snapshot
    /\ [][\A t \in Threads : C7_Step(t)]_vars

C7_Witness ==
    \E t \in Threads :
        /\ pc[t] = "paginate"
        /\ Len(seen[t]) >= 1
        /\ Len(feedback_db) > Len(seen[t])

\* The parts of C8: what holds of the notifications run, and the steps.
C8_Log ==
    /\ \A e \in BagToSet(email_log) :
         /\ CopiesIn(e, email_log) = 1
         /\ \E i \in 1..Len(feedback_db) :
              /\ feedback_db[i].id = e.id
              /\ feedback_db[i].email = e.email
              /\ feedback_db[i].message = e.message
         /\ \A f \in BagToSet(email_log) : f.id = e.id => f = e
    /\ \A t \in Threads :
         background_tasks[t] # <<>> =>
            /\ Len(background_tasks[t]) = 1
            /\ \E i \in 1..Len(feedback_db) :
                 /\ feedback_db[i] = feedback_record[t]
                 /\ background_tasks[t][1] = <<feedback_db[i].email, feedback_db[i].message>>

C8_Step ==
    /\ email_log' # email_log =>
         \E t \in Threads : pc[t] = "background" /\ pc'[t] = "idle"
    /\ background_tasks' # background_tasks =>
         \E t \in Threads :
            \/ pc[t] = "add_task" /\ pc'[t] = "return"
            \/ pc[t] = "background" /\ pc'[t] = "idle"

\* C8: every notification run belongs to one stored record and carries that
\* record's email and message; no record has two; a scheduled task belongs
\* to a record already stored; only the background step of a submit runs a
\* notification and only the add_task step schedules one.
C8_NotificationOncePerSubmission ==
    /\ []C8_Log
    /\ [][C8_Step]_vars

C8_Witness ==
    /\ BagCardinality(email_log) = 2
    /\ response = ValidationError("body")

\* The parts of C9: what holds of the notifications run, and the steps.
C9_Log ==
    \A e \in BagToSet(email_log) : \E r \in returned : r.id = e.id

C9_Step(t) ==
    /\ (pc[t] = "return" /\ pc'[t] = "background") =>
          /\ response'.status = HTTP_201_CREATED
          /\ response'.feedback = FeedbackOut(feedback_record[t])
          /\ background_tasks'[t] # <<>>
    /\ (pc[t] = "background" /\ pc'[t] = "idle") =>
          /\ FeedbackOut(feedback_record[t]) \in returned
          /\ returned' = returned
          /\ response' = NoResponse
          /\ feedback_db' = feedback_db
          /\ feedback_id_counter' = feedback_id_counter
          /\ background_tasks'[t] = <<>>

\* C9: a notification runs only for a submission whose response was already
\* sent; the response is sent while the task is still pending; and the task's
\* run, failed or not, leaves the store, the counter and the responses sent
\* as they were, sends nothing more, and leaves no task to run again.
C9_NotificationNeverAffectsSubmit ==
    /\ []C9_Log
    /\ [][\A t \in Threads : C9_Step(t)]_vars

C9_Witness ==
    /\ task_error = TRUE
    /\ Len(feedback_db) >= 1
    /\ response = NoResponse

\* The lock part of C10.
C10_Lock ==
    /\ Cardinality({t \in Threads : pc[t] \in CriticalPcs}) <= 1
    /\ feedback_lock <=> (\E t \in Threads : pc[t] \in CriticalPcs)

\* C10: the lock is held by at most one thread, exactly while that thread is
\* between building its record and leaving the with-block (so not while a
\* task is scheduled or run, and never by a list request); and under fair
\* scheduling every request that has started completes.
C10_NoOperationBlocksForever ==
    /\ []C10_Lock
    /\ \A t \in Threads : (pc[t] # "idle") ~> (pc[t] = "idle")

C10_Witness ==
    \E t, u \in Threads :
        /\ t # u
        /\ pc[t] = "acquire"
        /\ pc[u] \in CriticalPcs
====
